---- MODULE Spec2Model ----
(***************************************************************************)
(* Model of market_analyzer.py: MarketEntryAnalyzer (calculate_risk_score, *)
(* forecast_metrics, analyze_country) and the batch driver analyze_markets *)
(* with create_comparison_visualizations.                                  *)
(*                                                                         *)
(* Numbers.  Risk scores are integers; total_score is kept in hundredths   *)
(* (weights 0.25/0.30/0.20/0.25 are 25/30/20/25 hundredths).  GDP and      *)
(* Consumer_Spending are kept in hundredths, Population and                *)
(* Economic_Growth in tenths, which is the precision of the data literals. *)
(* Forecast quantities are exact rationals [num, den].  A float division   *)
(* by zero (numpy) yields inf, -inf or nan and raises nothing.             *)
(***************************************************************************)
EXTENDS Integers, Sequences, FiniteSets, TLC

VARIABLES
    current_data,     \* self.current_data   : country -> snapshot
    historical_data,  \* self.historical_data: country -> metric -> series
    risk_factors,     \* self.risk_factors   : country -> category -> [score, factors]
    smoothing,        \* smoothing parameters the fit settles on, in halves
    call,             \* the latest direct call of an analyzer method and its outcome
    pc,               \* position of analyze_markets
    country_list,     \* argument of analyze_markets
    idx,              \* loop position in country_list (1-based)
    results,          \* the list analyze_markets accumulates
    charts,           \* number of create_comparison_visualizations calls of this run
    earlier           \* the first forecast_metrics call of the run, kept for comparison
                      \* (recorded under SpecCalls only)

vars == <<current_data, historical_data, risk_factors, smoothing,
          call, pc, country_list, idx, results, charts, earlier>>

dataset == <<current_data, historical_data, risk_factors, smoothing>>

---------------------------------------------------------------------------
(* Bounds of the model *)

MaxYears == 2        \* horizons 1..MaxYears for direct forecast_metrics calls
MaxListLen == 2      \* longest country_list handed to analyze_markets
MaxSeriesLen == 3    \* longest enumerated historical series

(* Program constants *)

WeightPolitical == 25
WeightEconomic == 30
WeightOperational == 20
WeightTechnical == 25
DefaultYearsAhead == 5

---------------------------------------------------------------------------
(* Values *)

None == [kind |-> "None"]

Raise(exc) == [kind |-> "raise", exc |-> exc]

Return(v) == [kind |-> "return", value |-> v]

DataCountries == {"Japan", "Canada"}

Countries == DataCountries \cup {"Germany"}

metrics_to_forecast == <<"GDP", "Population", "Consumer_Spending", "Economic_Growth">>

Metrics == {metrics_to_forecast[i] : i \in 1..Len(metrics_to_forecast)}

risk_categories == <<"Political_Risk", "Economic_Risk", "Operational_Risk", "Technical_Risk">>

Categories == {risk_categories[i] : i \in 1..Len(risk_categories)}

\* a variant with all four categories weighted alike
weights_uniform == [Political_Risk |-> 25, Economic_Risk |-> 25,
                    Operational_Risk |-> 25, Technical_Risk |-> 25]

weights == [Political_Risk |-> WeightPolitical, Economic_Risk |-> WeightEconomic,
            Operational_Risk |-> WeightOperational, Technical_Risk |-> WeightTechnical]

---------------------------------------------------------------------------
(* calculate_risk_score *)

\* the keys of a dict in a fixed iteration order
RECURSIVE KeysOf(_)
KeysOf(d) ==
    IF DOMAIN d = {} THEN <<>>
    ELSE LET k == CHOOSE x \in DOMAIN d : TRUE
         IN  <<k>> \o KeysOf([y \in DOMAIN d \ {k} |-> d[y]])

\* sum(weights[risk_type] * risk_data['score'] for ... in country_risks.items());
\* weights[risk_type] raises KeyError for a category that has no weight
RECURSIVE WeightedSum(_, _)
WeightedSum(country_risks, keys) ==
    IF keys = <<>> THEN Return(0)
    ELSE LET k == Head(keys)
             rest == WeightedSum(country_risks, Tail(keys))
         IN  IF k \notin DOMAIN weights THEN Raise("KeyError")
             ELSE IF rest.kind = "raise" THEN rest
             ELSE Return(weights[k] * country_risks[k].score + rest.value)

\* a variant with the first bound exclusive
RiskRatingExclusive(total_score) ==
    IF total_score < 1500 THEN "Very Low Risk"
    ELSE IF total_score <= 2500 THEN "Low Risk"
    ELSE IF total_score <= 3500 THEN "Moderate Risk"
    ELSE IF total_score <= 4500 THEN "High Risk"
    ELSE "Very High Risk"

\* if total_score <= 15 ... elif ... else (total_score in hundredths)
RiskRating(total_score) ==
    IF total_score <= 1500 THEN "Very Low Risk"
    ELSE IF total_score <= 2500 THEN "Low Risk"
    ELSE IF total_score <= 3500 THEN "Moderate Risk"
    ELSE IF total_score <= 4500 THEN "High Risk"
    ELSE "Very High Risk"

\* the body of the try block: Return(value) or Raise(exception)
calculate_risk_score_body(country) ==
    IF country \notin DOMAIN risk_factors \/ DOMAIN risk_factors[country] = {}
    THEN Return(None)
    ELSE LET country_risks == risk_factors[country]
             total == WeightedSum(country_risks, KeysOf(country_risks))
         IN  IF total.kind = "raise" THEN total
             ELSE Return([kind |-> "RiskAssessment",
                          total_score |-> total.value,
                          risk_rating |-> RiskRating(total.value),
                          detailed_scores |->
                              [c \in DOMAIN country_risks |->
                                  [score |-> country_risks[c].score,
                                   factors |-> country_risks[c].factors]]])

\* a variant without the handler: the exception leaves the method
TryExceptMissing(body) == body

\* try: ... except Exception: log; return None
TryExcept(body) == IF body.kind = "raise" THEN Return(None) ELSE body

calculate_risk_score(country) == TryExcept(calculate_risk_score_body(country))

---------------------------------------------------------------------------
(* forecast_metrics *)

\* Holt's additive-trend recursion over observations t..Len(y).  L and B are
\* level and trend multiplied by S; smoothing_level = p[1]/2 and
\* smoothing_trend = p[2]/2.  One step multiplies the scale by 4.
RECURSIVE HoltRecursion(_, _, _, _, _, _)
HoltRecursion(y, t, L, B, S, p) ==
    IF t > Len(y) THEN [level |-> L, trend |-> B, scale |-> S]
    ELSE LET L2 == p[1] * S * y[t] + (2 - p[1]) * (L + B)      \* scale 2S
             B4 == p[2] * (L2 - 2 * L) + 2 * (2 - p[2]) * B     \* scale 4S
         IN  HoltRecursion(y, t + 1, 2 * L2, B4, 4 * S, p)

\* a variant that fits a flat line to a single observation
FitFlatLine(y, p) ==
    IF Len(y) = 0 THEN Raise("ValueError")
    ELSE IF Len(y) = 1 THEN Return([level |-> y[1], trend |-> 0, scale |-> 1])
    ELSE Return(HoltRecursion(y, 1, y[1], y[2] - y[1], 1, p))

\* ExponentialSmoothing(data, trend='add', seasonal=None).fit(): the initial
\* trend is the difference of the first two observations, so a series of fewer
\* than two points raises; otherwise the fitted level and trend.
ExponentialSmoothingFit(y, p) ==
    IF Len(y) < 2 THEN Raise(IF Len(y) = 0 THEN "ValueError" ELSE "IndexError")
    ELSE Return(HoltRecursion(y, 1, y[1], y[2] - y[1], 1, p))

\* fitted_model.forecast(years_ahead): years_ahead successive points
Forecast(fitted, years_ahead) ==
    [h \in 1..years_ahead |->
        [num |-> fitted.level + h * fitted.trend, den |-> fitted.scale]]

\* ((future_value / current_value) - 1) * 100 in floating point:
\* a zero current_value gives inf, -inf or nan
GrowthRate(future_value, current_value) ==
    IF current_value = 0
    THEN IF future_value.num > 0 THEN [kind |-> "inf"]
         ELSE IF future_value.num < 0 THEN [kind |-> "-inf"]
         ELSE [kind |-> "nan"]
    ELSE LET n == 100 * (future_value.num - future_value.den * current_value)
             d == future_value.den * current_value
         IN  IF d > 0 THEN [kind |-> "fin", num |-> n, den |-> d]
             ELSE [kind |-> "fin", num |-> -n, den |-> -d]

\* growth_rate > 0 (nan compares false)
Positive(growth_rate) ==
    \/ growth_rate.kind = "inf"
    \/ growth_rate.kind = "fin" /\ growth_rate.num > 0

\* a variant that labels a zero growth rate "Increasing"
TrendLabelGe(growth_rate) ==
    IF Positive(growth_rate) \/ (growth_rate.kind = "fin" /\ growth_rate.num = 0)
    THEN "Increasing" ELSE "Decreasing"

\* "Increasing" if growth_rate > 0 else "Decreasing"
TrendLabel(growth_rate) ==
    IF Positive(growth_rate) THEN "Increasing" ELSE "Decreasing"

\* a variant that surfaces the first projected point (iloc[0] for iloc[-1])
ForecastOneFirstPoint(historical_values, years_ahead) ==
    LET fitted_model == ExponentialSmoothingFit(historical_values, smoothing)
    IN  IF fitted_model.kind = "raise" THEN fitted_model
        ELSE LET forecast_values == Forecast(fitted_model.value, years_ahead)
                 current_value == historical_values[Len(historical_values)]
                 future_value == forecast_values[1]
                 growth_rate == GrowthRate(future_value, current_value)
             IN  Return([current_value |-> current_value,
                         forecasted_value |-> future_value,
                         growth_rate |-> growth_rate,
                         trend |-> TrendLabel(growth_rate)])

\* one iteration of the loop over metrics_to_forecast
ForecastOne(historical_values, years_ahead) ==
    LET fitted_model == ExponentialSmoothingFit(historical_values, smoothing)
    IN  IF fitted_model.kind = "raise" THEN fitted_model
        ELSE LET forecast_values == Forecast(fitted_model.value, years_ahead)
                 current_value == historical_values[Len(historical_values)]
                 future_value == forecast_values[Len(forecast_values)]
                 growth_rate == GrowthRate(future_value, current_value)
             IN  Return([current_value |-> current_value,
                         forecasted_value |-> future_value,
                         growth_rate |-> growth_rate,
                         trend |-> TrendLabel(growth_rate)])

\* the loop: forecasts is filled metric by metric; an exception leaves the loop
RECURSIVE ForecastLoop(_, _, _, _)
ForecastLoop(country, years_ahead, i, forecasts) ==
    IF i > Len(metrics_to_forecast) THEN Return(forecasts)
    ELSE LET metric == metrics_to_forecast[i]
             one == ForecastOne(historical_data[country][metric], years_ahead)
         IN  IF one.kind = "raise" THEN one
             ELSE ForecastLoop(country, years_ahead, i + 1,
                               [m \in DOMAIN forecasts \cup {metric} |->
                                   IF m = metric THEN one.value ELSE forecasts[m]])

\* the body of the try block
forecast_metrics_body(country, years_ahead) ==
    IF country \notin DOMAIN historical_data THEN Return(None)
    ELSE ForecastLoop(country, years_ahead, 1, <<>>)

\* a variant that keeps the horizon of the preceding forecast_metrics call
\* (a horizon stored on the analyzer and not refreshed)
forecast_metrics_stale(country, years_ahead) ==
    TryExcept(forecast_metrics_body(country,
                  IF call.op = "forecast_metrics" THEN call.years_ahead
                  ELSE years_ahead))

forecast_metrics(country, years_ahead) ==
    TryExcept(forecast_metrics_body(country, years_ahead))

---------------------------------------------------------------------------
(* analyze_country *)

\* a variant with the top bound exclusive
StatusOfExclusive(market_score) ==
    IF market_score > 88 THEN "Highly Suitable"
    ELSE IF market_score >= 82 THEN "Very Suitable"
    ELSE IF market_score >= 75 THEN "Suitable"
    ELSE "Moderately Suitable"

\* if market_score >= 88 ... elif ... else
StatusOf(market_score) ==
    IF market_score >= 88 THEN "Highly Suitable"
    ELSE IF market_score >= 82 THEN "Very Suitable"
    ELSE IF market_score >= 75 THEN "Suitable"
    ELSE "Moderately Suitable"

\* an f-string of a number with fixed decimals between a prefix and a suffix;
\* the stored values carry exactly that many decimals
Format(prefix, value, decimals, suffix) ==
    [prefix |-> prefix, digits |-> value, decimals |-> decimals, suffix |-> suffix]

CurrentMetrics(country_data) ==
    [Population |-> Format("", country_data.Population, 1, " Million"),
     GDP |-> Format("$", country_data.GDP, 2, " Trillion USD"),
     Consumer_Spending |-> Format("$", country_data.Consumer_Spending, 2, " Trillion USD"),
     Economic_Growth |-> Format("", country_data.Economic_Growth, 1, "%")]

\* country_data.get('Market_Score', 0)
MarketScore(country_data) ==
    IF "Market_Score" \in DOMAIN country_data THEN country_data.Market_Score ELSE 0

\* the record analyze_country assembles for a country that has a snapshot
Analysis(country, country_data, forecasts, risk_analysis) ==
    [kind |-> "CountryAnalysis",
     country |-> country,
     market_score |-> MarketScore(country_data),
     status |-> StatusOf(MarketScore(country_data)),
     current_metrics |-> CurrentMetrics(country_data),
     strengths |-> country_data.Strengths,
     weaknesses |-> country_data.Weaknesses,
     forecasts |-> forecasts,
     risk_analysis |-> risk_analysis]

\* a variant that fabricates a zeroed record for a country without a snapshot
analyze_country_default(country) ==
    IF country \notin DOMAIN current_data
    THEN Return([kind |-> "CountryAnalysis", country |-> country, market_score |-> 0,
                 status |-> StatusOf(0), current_metrics |-> <<>>,
                 strengths |-> <<>>, weaknesses |-> <<>>,
                 forecasts |-> None, risk_analysis |-> None])
    ELSE Return(Analysis(country, current_data[country],
                         forecast_metrics(country, DefaultYearsAhead).value,
                         calculate_risk_score(country).value))

\* a variant that gives up the whole analysis when a sub-computation fails
analyze_country_abort(country) ==
    IF country \notin DOMAIN current_data THEN Return(None)
    ELSE IF forecast_metrics(country, DefaultYearsAhead).value = None
            \/ calculate_risk_score(country).value = None
         THEN Return(None)
    ELSE Return(Analysis(country, current_data[country],
                         forecast_metrics(country, DefaultYearsAhead).value,
                         calculate_risk_score(country).value))

\* the body of the try block; the two sub-calls return, they never raise
analyze_country_body(country) ==
    IF country \notin DOMAIN current_data THEN Return(None)
    ELSE LET forecasts == forecast_metrics(country, DefaultYearsAhead)
             risk_analysis == calculate_risk_score(country)
         IN  IF forecasts.kind = "raise" THEN forecasts
             ELSE IF risk_analysis.kind = "raise" THEN risk_analysis
             ELSE Return(Analysis(country, current_data[country],
                                  forecasts.value, risk_analysis.value))

analyze_country(country) == TryExcept(analyze_country_body(country))

---------------------------------------------------------------------------
(* The dataset: prepare_market_data, prepare_historical_data and           *)
(* prepare_risk_data.  The literals of two of the four countries are kept; *)
(* each historical series is cut to its last three observations.           *)

SeedSnapshot ==
    [Japan |->
        [GDP |-> 423, Population |-> 1252, Consumer_Spending |-> 288,
         Economic_Growth |-> 10, Market_Score |-> 88,
         Strengths |-> <<"Advanced Infrastructure and Technology",
                         "Strong Financial System", "High Innovation Capacity">>,
         Weaknesses |-> <<"Slow Economic Growth", "Complex Business Regulations",
                          "Limited Market Expansion Potential">>],
     Canada |->
        [GDP |-> 200, Population |-> 385, Consumer_Spending |-> 118,
         Economic_Growth |-> 34, Market_Score |-> 83,
         Strengths |-> <<"Strong Legal Framework", "Stable Financial System",
                         "High-Quality Infrastructure">>,
         Weaknesses |-> <<"Small Domestic Market", "High Business Operating Costs",
                          "Weather-Related Challenges">>]]

SeedHistory ==
    [Japan |->
        [GDP |-> <<497, 494, 423>>, Population |-> <<1258, 1255, 1252>>,
         Consumer_Spending |-> <<275, 282, 288>>, Economic_Growth |-> <<-45, 16, 10>>],
     Canada |->
        [GDP |-> <<164, 199, 200>>, Population |-> <<380, 382, 385>>,
         Consumer_Spending |-> <<96, 115, 118>>, Economic_Growth |-> <<-52, 45, 34>>]]

SeedRisk ==
    [Japan |->
        [Political_Risk |-> [score |-> 15, factors |->
            <<"Stable political environment", "Strong regulatory framework",
              "Occasional policy shifts affecting business">>],
         Economic_Risk |-> [score |-> 25, factors |->
            <<"Deflation concerns", "High public debt", "Aging population impact">>],
         Operational_Risk |-> [score |-> 20, factors |->
            <<"Natural disaster vulnerability", "High operating costs",
              "Complex business culture">>],
         Technical_Risk |-> [score |-> 15, factors |->
            <<"Advanced digital infrastructure", "High cybersecurity standards",
              "Strong technological innovation", "Skilled IT workforce">>]],
     Canada |->
        [Political_Risk |-> [score |-> 10, factors |->
            <<"Stable political system", "Strong property rights",
              "Transparent regulations">>],
         Economic_Risk |-> [score |-> 20, factors |->
            <<"US economic dependency", "Housing market volatility",
              "Resource price sensitivity">>],
         Operational_Risk |-> [score |-> 15, factors |->
            <<"High labor costs", "Inter-provincial trade barriers",
              "Weather-related disruptions">>],
         Technical_Risk |-> [score |-> 18, factors |->
            <<"Strong digital infrastructure", "Advanced cybersecurity measures",
              "Growing tech ecosystem", "High tech adoption rate">>]]]

\* the smoothing parameters where the fit is not the subject: both one half
SeedSmoothing == <<1, 1>>

---------------------------------------------------------------------------
(* Datasets other than the seed, for the cases the seed does not contain   *)

\* d with the entry of key k replaced by (or extended with) v
Put(d, k, v) == [x \in DOMAIN d \cup {k} |-> IF x = k THEN v ELSE d[x]]

\* the partial maps over DataCountries whose entry for c is in variants[c]
PartialMaps(variants) ==
    UNION {{f \in [D -> UNION {variants[c] : c \in D}] :
                \A c \in D : f[c] \in variants[c]} : D \in SUBSET DataCountries}

\* per country: the seed series, or one metric with too few observations
HistoryVariants ==
    [Japan |-> {SeedHistory.Japan,
                Put(SeedHistory.Japan, "GDP", <<423>>),
                Put(SeedHistory.Japan, "Economic_Growth", <<>>)},
     Canada |-> {SeedHistory.Canada,
                 Put(SeedHistory.Canada, "Consumer_Spending", <<118>>)}]

\* per country: the seed profile, or one with a category that has no weight
RiskVariants ==
    [Japan |-> {SeedRisk.Japan},
     Canada |-> {SeedRisk.Canada,
                 Put(SeedRisk.Canada, "Legal_Risk",
                     [score |-> 12, factors |-> <<"Contract enforcement">>])}]

RiskScores == {15, 35, 55}

MarketScores == {74, 75, 81, 82, 87, 88, 100}

SeriesValues == {-1, 0, 2}

SmoothingGrid == {<<1, 1>>, <<1, 2>>, <<2, 2>>}

SeriesUpTo(n) == UNION {[1..k -> SeriesValues] : k \in 0..n}

Idle ==
    /\ pc = "idle"
    /\ country_list = <<>>
    /\ idx = 1
    /\ results = <<>>
    /\ charts = 0

NoCall == [op |-> "none", country |-> "", years_ahead |-> 0,
           result |-> Return(None), cause |-> "ok"]

\* countries present or absent in each of the three maps, short series
InitPresence ==
    /\ current_data \in {[c \in D |-> SeedSnapshot[c]] : D \in SUBSET DataCountries}
    /\ historical_data \in PartialMaps(HistoryVariants)
    /\ risk_factors \in PartialMaps(RiskVariants)
    /\ smoothing = SeedSmoothing

\* every risk profile over RiskScores
InitRisk ==
    /\ current_data = SeedSnapshot
    /\ historical_data = SeedHistory
    /\ \E sc \in [Categories -> RiskScores] :
          risk_factors = Put(SeedRisk, "Japan",
              [c \in Categories |-> [score |-> sc[c],
                                     factors |-> SeedRisk.Japan[c].factors]])
    /\ smoothing = SeedSmoothing

\* every market score of MarketScores, and a snapshot without one
InitStatus ==
    /\ \/ \E ms \in MarketScores :
             current_data = Put(SeedSnapshot, "Japan",
                                Put(SeedSnapshot.Japan, "Market_Score", ms))
       \/ current_data = Put(SeedSnapshot, "Japan",
              [k \in DOMAIN SeedSnapshot.Japan \ {"Market_Score"} |->
                  SeedSnapshot.Japan[k]])
    /\ historical_data = SeedHistory
    /\ risk_factors = SeedRisk
    /\ smoothing = SeedSmoothing

\* every short series over SeriesValues, under every smoothing of the grid
InitSeries ==
    /\ current_data = SeedSnapshot
    /\ \E y \in SeriesUpTo(MaxSeriesLen) :
          historical_data = Put(SeedHistory, "Japan", Put(SeedHistory.Japan, "GDP", y))
    /\ risk_factors = SeedRisk
    /\ smoothing \in SmoothingGrid

\* no forecast_metrics call has been made yet
NoEarlier == [op |-> "none", country |-> "", years_ahead |-> 0,
              result |-> Return(None), interleaved |-> FALSE]

Init ==
    /\ InitPresence \/ InitRisk \/ InitStatus \/ InitSeries
    /\ call = NoCall
    /\ Idle
    /\ earlier = NoEarlier

---------------------------------------------------------------------------
(* Direct calls of the analyzer's methods *)

\* the branch a try body took: "ok", "NotFound" (the early return None),
\* "FitFailure" (the fit raised) or "Error" (another exception)
CauseOf(body) ==
    IF body.kind = "raise"
    THEN IF body.exc \in {"IndexError", "ValueError"} THEN "FitFailure" ELSE "Error"
    ELSE IF body.value = None THEN "NotFound"
    ELSE "ok"

\* analyze_markets has not been entered; once it has, the run ends with it
NotRunning == pc = "idle"

markets == <<pc, country_list, idx, results, charts>>

\* the record of the first forecast_metrics call after the call made: it is
\* taken at that call and marked interleaved once any call with another method
\* or other arguments has followed it
Observe(made) ==
    IF earlier.op = "none"
    THEN IF made.op = "forecast_metrics"
         THEN [op |-> made.op, country |-> made.country,
               years_ahead |-> made.years_ahead, result |-> made.result,
               interleaved |-> FALSE]
         ELSE earlier
    ELSE IF made.op = earlier.op /\ made.country = earlier.country
            /\ made.years_ahead = earlier.years_ahead
         THEN earlier
         ELSE [earlier EXCEPT !.interleaved = TRUE]

\* a variant that takes the profile out of the dataset while scoring it
\* (self.risk_factors.pop(country) for self.risk_factors.get(country))
CalculateRiskScorePop(country) ==
    /\ pc = "idle"
    /\ call' = [op |-> "calculate_risk_score", country |-> country, years_ahead |-> 0,
                result |-> calculate_risk_score(country),
                cause |-> CauseOf(calculate_risk_score_body(country))]
    /\ risk_factors' = [c \in DOMAIN risk_factors \ {country} |-> risk_factors[c]]
    /\ UNCHANGED <<markets, current_data, historical_data, smoothing>>

CalculateRiskScore(country) ==
    /\ NotRunning
    /\ call' = [op |-> "calculate_risk_score", country |-> country, years_ahead |-> 0,
                result |-> calculate_risk_score(country),
                cause |-> CauseOf(calculate_risk_score_body(country))]
    /\ UNCHANGED <<markets, dataset>>

ForecastMetrics(country, years_ahead) ==
    /\ NotRunning
    /\ call' = [op |-> "forecast_metrics", country |-> country,
                years_ahead |-> years_ahead,
                result |-> forecast_metrics(country, years_ahead),
                cause |-> CauseOf(forecast_metrics_body(country, years_ahead))]
    /\ UNCHANGED <<markets, dataset>>

AnalyzeCountry(country) ==
    /\ NotRunning
    /\ call' = [op |-> "analyze_country", country |-> country, years_ahead |-> 0,
                result |-> analyze_country(country),
                cause |-> CauseOf(analyze_country_body(country))]
    /\ UNCHANGED <<markets, dataset>>

---------------------------------------------------------------------------
(* analyze_markets *)

CountryLists == UNION {[1..n -> Countries] : n \in 0..MaxListLen}

\* the console report of one analysis: analysis['risk_analysis'] is subscripted
\* unguarded, analysis['forecasts'] only under "if analysis['forecasts']"
PrintAnalysis(analysis) ==
    IF analysis.risk_analysis = None THEN Raise("TypeError")
    ELSE IF analysis.forecasts # None
            /\ \E m \in Metrics : m \notin DOMAIN analysis.forecasts
         THEN Raise("KeyError")
    ELSE Return(None)

\* the charts subscript r['risk_analysis'] of every result
create_comparison_visualizations(rs) ==
    IF \E i \in 1..Len(rs) : rs[i].risk_analysis = None THEN Raise("TypeError")
    ELSE Return(None)

AnalyzeMarketsStart(list) ==
    /\ NotRunning
    /\ pc' = "loop"
    /\ country_list' = list
    /\ idx' = 1
    /\ results' = <<>>
    /\ charts' = 0
    /\ call' = NoCall
    /\ UNCHANGED dataset

\* a variant that renders the charts inside the loop, once per analysed country
AnalyzeMarketsLoopRendering ==
    /\ pc = "loop"
    /\ idx <= Len(country_list)
    /\ LET analysis == analyze_country(country_list[idx])
       IN  IF analysis.kind = "raise"
           THEN pc' = "crashed" /\ UNCHANGED <<idx, results, charts>>
           ELSE IF analysis.value = None
           THEN pc' = pc /\ idx' = idx + 1 /\ UNCHANGED <<results, charts>>
           ELSE /\ results' = Append(results, analysis.value)
                /\ IF PrintAnalysis(analysis.value).kind = "raise"
                   THEN pc' = "crashed" /\ UNCHANGED <<idx, charts>>
                   ELSE pc' = pc /\ idx' = idx + 1 /\ charts' = charts + 1
    /\ UNCHANGED <<country_list, call, dataset>>

\* a variant that puts each new record in front (results.insert(0, analysis))
AnalyzeMarketsLoopPrepend ==
    /\ pc = "loop"
    /\ idx <= Len(country_list)
    /\ LET analysis == analyze_country(country_list[idx])
       IN  IF analysis.kind = "raise"
           THEN pc' = "crashed" /\ UNCHANGED <<idx, results>>
           ELSE IF analysis.value = None
           THEN pc' = pc /\ idx' = idx + 1 /\ UNCHANGED results
           ELSE /\ results' = <<analysis.value>> \o results
                /\ IF PrintAnalysis(analysis.value).kind = "raise"
                   THEN pc' = "crashed" /\ UNCHANGED idx
                   ELSE pc' = pc /\ idx' = idx + 1
    /\ UNCHANGED <<country_list, charts, call, dataset>>

\* one iteration of "for country in country_list"
AnalyzeMarketsLoop ==
    /\ pc = "loop"
    /\ idx <= Len(country_list)
    /\ LET analysis == analyze_country(country_list[idx])
       IN  IF analysis.kind = "raise"
           THEN pc' = "crashed" /\ UNCHANGED <<idx, results>>
           ELSE IF analysis.value = None
           THEN pc' = pc /\ idx' = idx + 1 /\ UNCHANGED results
           ELSE /\ results' = Append(results, analysis.value)
                /\ IF PrintAnalysis(analysis.value).kind = "raise"
                   THEN pc' = "crashed" /\ UNCHANGED idx
                   ELSE pc' = pc /\ idx' = idx + 1
    /\ UNCHANGED <<country_list, charts, call, dataset>>

\* after the loop: "if results: create_comparison_visualizations(results)", return
AnalyzeMarketsReturn ==
    /\ pc = "loop"
    /\ idx > Len(country_list)
    /\ IF results = <<>>
       THEN pc' = "done" /\ UNCHANGED charts
       ELSE /\ charts' = charts + 1
            /\ pc' = IF create_comparison_visualizations(results).kind = "raise"
                      THEN "crashed" ELSE "done"
    /\ UNCHANGED <<country_list, idx, results, call, dataset>>

Next ==
    \/ \E c \in Countries : CalculateRiskScore(c) /\ UNCHANGED earlier
    \/ \E c \in Countries : \E n \in 1..MaxYears :
          ForecastMetrics(c, n) /\ UNCHANGED earlier
    \/ \E c \in Countries : AnalyzeCountry(c) /\ UNCHANGED earlier
    \/ \E list \in CountryLists : AnalyzeMarketsStart(list) /\ UNCHANGED earlier
    \/ AnalyzeMarketsLoop /\ UNCHANGED earlier
    \/ AnalyzeMarketsReturn /\ UNCHANGED earlier

Spec == Init /\ [][Next]_vars

---------------------------------------------------------------------------
(* Sequences of direct calls, with the first forecast_metrics call recorded *)

\* the datasets of InitPresence in which every country has its snapshot
InitCalls ==
    /\ InitPresence
    /\ DOMAIN current_data = DataCountries
    /\ call = NoCall
    /\ Idle
    /\ earlier = NoEarlier

NextCalls ==
    \/ \E c \in Countries : CalculateRiskScore(c) /\ earlier' = Observe(call')
    \/ \E c \in Countries : \E n \in 1..MaxYears :
          ForecastMetrics(c, n) /\ earlier' = Observe(call')
    \/ \E c \in Countries : AnalyzeCountry(c) /\ earlier' = Observe(call')

SpecCalls == InitCalls /\ [][NextCalls]_vars

-----
(* Claims *)

Score(country, category) == risk_factors[country][category].score

\* C1: for a country with a risk profile of the four categories,
\* calculate_risk_score returns total_score = 0.25*Political + 0.30*Economic
\* + 0.20*Operational + 0.25*Technical, unrounded (in hundredths), and the
\* four weights sum to 1.0.
C1_TotalIsWeightedSum ==
    /\ WeightPolitical + WeightEconomic + WeightOperational + WeightTechnical = 100
    /\ (call.op = "calculate_risk_score"
        /\ call.country \in DOMAIN risk_factors
        /\ DOMAIN risk_factors[call.country] = Categories)
       => /\ call.result.kind = "return"
          /\ call.result.value # None
          /\ call.result.value.total_score =
                25 * Score(call.country, "Political_Risk")
              + 30 * Score(call.country, "Economic_Risk")
              + 20 * Score(call.country, "Operational_Risk")
              + 25 * Score(call.country, "Technical_Risk")

\* the seed Japan profile 15/25/20/15 scored 19.0
C1_Witness ==
    /\ call.op = "calculate_risk_score"
    /\ call.country = "Japan"
    /\ "Japan" \in DOMAIN risk_factors
    /\ risk_factors["Japan"] = SeedRisk.Japan
    /\ call.result.value # None
    /\ call.result.value.total_score = 1900

\* C2: the rating of a total t is "Very Low Risk" for t <= 15, "Low Risk" for
\* 15 < t <= 25, "Moderate Risk" for 25 < t <= 35, "High Risk" for
\* 35 < t <= 45 and "Very High Risk" for t > 45: exactly one of five labels.
C2_RatingBuckets ==
    (call.op = "calculate_risk_score" /\ call.result.kind = "return"
     /\ call.result.value # None)
    => LET t == call.result.value.total_score
           r == call.result.value.risk_rating
       IN  /\ r \in {"Very Low Risk", "Low Risk", "Moderate Risk", "High Risk",
                     "Very High Risk"}
           /\ (r = "Very Low Risk") <=> (t <= 1500)
           /\ (r = "Low Risk") <=> (1500 < t /\ t <= 2500)
           /\ (r = "Moderate Risk") <=> (2500 < t /\ t <= 3500)
           /\ (r = "High Risk") <=> (3500 < t /\ t <= 4500)
           /\ (r = "Very High Risk") <=> (4500 < t)

\* a total of exactly 15 rated "Very Low Risk"
C2_Witness ==
    /\ call.op = "calculate_risk_score"
    /\ call.result.value # None
    /\ call.result.value.total_score = 1500
    /\ call.result.value.risk_rating = "Very Low Risk"

\* C3: for a country with a snapshot, analyze_country's status is
\* "Highly Suitable" for a market score >= 88, "Very Suitable" for 82..<88,
\* "Suitable" for 75..<82 and "Moderately Suitable" below 75.
C3_StatusBuckets ==
    (call.op = "analyze_country" /\ call.country \in DOMAIN current_data)
    => /\ call.result.kind = "return"
       /\ call.result.value # None
       /\ LET ms == IF "Market_Score" \in DOMAIN current_data[call.country]
                    THEN current_data[call.country].Market_Score ELSE 0
              st == call.result.value.status
          IN  /\ call.result.value.market_score = ms
              /\ (st = "Highly Suitable") <=> (ms >= 88)
              /\ (st = "Very Suitable") <=> (82 <= ms /\ ms < 88)
              /\ (st = "Suitable") <=> (75 <= ms /\ ms < 82)
              /\ (st = "Moderately Suitable") <=> (ms < 75)

\* Canada's market score 83 gave "Very Suitable"
C3_Witness ==
    /\ call.op = "analyze_country"
    /\ call.country = "Canada"
    /\ call.result.value # None
    /\ call.result.value.market_score = 83
    /\ call.result.value.status = "Very Suitable"

\* C4: for a country absent from the map a method reads, calculate_risk_score,
\* forecast_metrics and analyze_country return None, never a record.
C4_UnknownCountryIsNone ==
    /\ (call.op = "calculate_risk_score" /\ call.country \notin DOMAIN risk_factors)
       => call.result = Return(None)
    /\ (call.op = "forecast_metrics" /\ call.country \notin DOMAIN historical_data)
       => call.result = Return(None)
    /\ (call.op = "analyze_country" /\ call.country \notin DOMAIN current_data)
       => call.result = Return(None)

\* analyze_country of a country in none of the three maps returned None
C4_Witness ==
    /\ call.op = "analyze_country"
    /\ call.country \notin DOMAIN current_data
    /\ call.country \notin DOMAIN historical_data
    /\ call.country \notin DOMAIN risk_factors
    /\ call.result = Return(None)

\* C5: for a country with a snapshot analyze_country returns a record with
\* status, strengths and weaknesses whose forecasts and risk_analysis are what
\* forecast_metrics and calculate_risk_score returned (None on failure); it
\* returns None only when the snapshot lookup fails.
C5_SubFailuresDegrade ==
    call.op = "analyze_country"
    => /\ call.result.kind = "return"
       /\ (call.result.value = None) <=> (call.country \notin DOMAIN current_data)
       /\ call.country \in DOMAIN current_data
          => LET a == call.result.value
                 country_data == current_data[call.country]
             IN  /\ a.status \in {"Highly Suitable", "Very Suitable", "Suitable",
                                   "Moderately Suitable"}
                 /\ a.strengths = country_data.Strengths
                 /\ a.weaknesses = country_data.Weaknesses
                 /\ a.forecasts = forecast_metrics(call.country, DefaultYearsAhead).value
                 /\ a.risk_analysis = calculate_risk_score(call.country).value

\* a record was returned although both sub-computations failed
C5_Witness ==
    /\ call.op = "analyze_country"
    /\ call.country \in DOMAIN current_data
    /\ call.result.value # None
    /\ call.result.value.forecasts = None
    /\ call.result.value.risk_analysis = None
    /\ call.result.value.strengths = current_data[call.country].Strengths

\* C6: forecast_metrics runs per metric: every metric of the country whose own
\* fit succeeds has its forecast result in the returned value, also when the
\* fit of another metric fails.
C6_PerMetricIndependence ==
    (call.op = "forecast_metrics" /\ call.country \in DOMAIN historical_data)
    => \A m \in Metrics :
          LET one == ForecastOne(historical_data[call.country][m], call.years_ahead)
          IN  one.kind = "return"
              => /\ call.result.kind = "return"
                 /\ call.result.value # None
                 /\ m \in DOMAIN call.result.value
                 /\ call.result.value[m] = one.value

C9_TrendMatchesGrowth ==
    (call.op = "forecast_metrics" /\ call.result.kind = "return"
     /\ call.result.value # None)
    => \A m \in DOMAIN call.result.value :
          LET f == call.result.value[m]
              g == f.growth_rate
              c == f.current_value
              F == f.forecasted_value
              positive == \/ g.kind = "inf"
                          \/ g.kind = "fin" /\ g.num > 0 /\ g.den > 0
              above == \/ c > 0 /\ F.num > F.den * c
                       \/ c < 0 /\ F.num < F.den * c
                       \/ c = 0 /\ F.num > 0
          IN  /\ f.trend \in {"Increasing", "Decreasing"}
              /\ (f.trend = "Increasing") <=> positive
              /\ positive <=> above

\* a growth rate of exactly 0 labelled "Decreasing"
C9_Witness ==
    /\ call.op = "forecast_metrics"
    /\ call.result.value # None
    /\ \E m \in DOMAIN call.result.value :
          /\ call.result.value[m].growth_rate.kind = "fin"
          /\ call.result.value[m].growth_rate.num = 0
          /\ call.result.value[m].trend = "Decreasing"

C11_DatasetUnchanged ==
    [][<<current_data, historical_data, risk_factors>>'
         = <<current_data, historical_data, risk_factors>>]_vars

\* after a forecast_metrics call, another call and an analyze_country call
\* every country of the dataset is still there with its risk profile
C11_Witness ==
    /\ earlier.op = "forecast_metrics"
    /\ earlier.interleaved
    /\ call.op = "analyze_country"
    /\ call.result.value # None
    /\ call.result.value.risk_analysis # None
    /\ DOMAIN risk_factors = DataCountries

C13_LastPointAndRawCurrent ==
    (call.op = "forecast_metrics" /\ call.result.kind = "return"
     /\ call.result.value # None)
    => \A m \in DOMAIN call.result.value :
          LET y == historical_data[call.country][m]
              N == call.years_ahead
              fitted == HoltRecursion(y, 1, y[1], y[2] - y[1], 1, smoothing)
              points == [h \in 1..N |-> [num |-> fitted.level + h * fitted.trend,
                                         den |-> fitted.scale]]
              f == call.result.value[m]
          IN  /\ Forecast(fitted, N) = points
              /\ Len(points) = N
              /\ f.forecasted_value = points[N]
              /\ f.current_value = y[Len(y)]
              /\ f.growth_rate = GrowthRate(points[N], y[Len(y)])

\* a horizon of two years where the second point differs from the first and
\* the fitted level differs from the last observation
C13_Witness ==
    /\ call.op = "forecast_metrics"
    /\ call.years_ahead = 2
    /\ call.result.value # None
    /\ \E m \in DOMAIN call.result.value :
          LET y == historical_data[call.country][m]
              fitted == HoltRecursion(y, 1, y[1], y[2] - y[1], 1, smoothing)
          IN  /\ fitted.trend # 0
              /\ fitted.level # fitted.scale * y[Len(y)]
              /\ call.result.value[m].current_value = y[Len(y)]
              /\ call.result.value[m].forecasted_value.num
                    = fitted.level + 2 * fitted.trend

\* C14: in analyze_markets the charts are rendered at most once per call, only
\* after the loop has passed every country of the list, never inside the loop,
\* and not at all when no country produced a result.
C14_ChartsOnceAtEnd ==
    /\ charts <= 1
    /\ pc = "loop" => charts = 0
    /\ charts = 1 => /\ idx = Len(country_list) + 1
                     /\ results # <<>>
                     /\ pc \in {"done", "crashed"}
    /\ (pc = "done" /\ results = <<>>) => charts = 0

\* two countries were analysed and the charts rendered once
C14_Witness ==
    /\ pc = "done"
    /\ Len(country_list) = 2
    /\ Len(results) = 2
    /\ charts = 1

\* the records analyze_country gives for the entries of list, in order,
\* leaving out the entries it returns None for
RECURSIVE FoundRecords(_)
FoundRecords(list) ==
    IF list = <<>> THEN <<>>
    ELSE LET a == analyze_country(Head(list)).value
         IN  (IF a = None THEN <<>> ELSE <<a>>) \o FoundRecords(Tail(list))

\* C15: when analyze_markets completes, results holds exactly one record per
\* list entry whose analyze_country result is not None, in the order of the
\* list, duplicates kept, and none for an entry that was not found.
C15_ResultsFollowList ==
    pc = "done"
    => /\ results = FoundRecords(country_list)
       /\ \A i \in 1..Len(results) :
             \E j \in i..Len(country_list) : results[i].country = country_list[j]
       /\ \A j \in 1..Len(country_list) :
             country_list[j] \notin DOMAIN current_data
             => \A i \in 1..Len(results) : results[i].country # country_list[j]

\* a country listed twice has its record twice
C15_Witness ==
    /\ pc = "done"
    /\ Len(country_list) = 2
    /\ country_list[1] = country_list[2]
    /\ Len(results) = 2
    /\ results[1] = results[2]

====
